---------------------------- MODULE Spec2Model ----------------------------
(***************************************************************************)
(* Speaker-verification scoring pipeline of the EfficientTDNN tutorials:   *)
(* cohort extraction, eval_veri, eval_asnorm (score_cohorts, asnorm,       *)
(* calculate_eer, calculate_mindcf).  The notebooks are the code; the      *)
(* routines they import from the sugar package are modelled from their     *)
(* documented contract (section 4 of the specification).                    *)
(***************************************************************************)
EXTENDS Integers, Sequences, FiniteSets, TLC

(***************************************************************************)
(* Bounds of the model.                                                    *)
(***************************************************************************)
NumUtts == 2        \* test utterance ids 1..NumUtts
NumCohort == 3      \* lines of the cohort list file
MaxTrials == 2      \* longest trial list of a test condition
MaxCalls == 2       \* eval_veri calls of one run (two test conditions)
MaxLen == 4         \* longest label/score vector handed to the metrics alone
MaxScore == 3       \* scores handed to the metrics alone are 0..MaxScore
MaxRaw == 2         \* raw scores handed to asnorm alone are -MaxRaw/2..MaxRaw/2
NumConfigs == 2     \* subnet configurations 1..NumConfigs of the configs list
NumDraws == 2       \* different outcomes of calibrating on shuffled batches
MaxIters == 3       \* iterations of the subnet loop, over all runs of its cell

(***************************************************************************)
(* The cohort subset size k of AS-Norm (the top-k highest cohort scores).  *)
(***************************************************************************)
TopK == 2

\* A name not bound yet, an empty list, an empty dict.
None == <<>>

(***************************************************************************)
(* Floating-point numbers, kept exact: a number is <<n, d>> with d > 0 in  *)
(* lowest terms; <<1,0>>, <<-1,0>> and <<0,0>> are +inf, -inf and nan, the *)
(* values a silent float division by zero produces.                        *)
(***************************************************************************)
Abs(x) == IF x < 0 THEN -x ELSE x

Sign(x) == IF x < 0 THEN -1 ELSE IF x > 0 THEN 1 ELSE 0

RECURSIVE GCD(_, _)
GCD(a, b) == IF b = 0 THEN a ELSE GCD(b, a % b)

Rat(n, d) ==
    IF d = 0 THEN <<Sign(n), 0>>
    ELSE LET g == GCD(Abs(n), Abs(d))
             s == Sign(d)
         IN  <<(s * n) \div g, (s * d) \div g>>

FromInt(i) == <<i, 1>>

NaN == <<0, 0>>

IsNaN(a) == a = NaN

IsFinite(a) == a[2] # 0

RNeg(a) == <<-a[1], a[2]>>

RAdd(a, b) ==
    IF IsNaN(a) \/ IsNaN(b) THEN NaN
    ELSE IF a[2] = 0 /\ b[2] = 0 THEN (IF a = b THEN a ELSE NaN)
    ELSE IF a[2] = 0 THEN a
    ELSE IF b[2] = 0 THEN b
    ELSE Rat(a[1] * b[2] + b[1] * a[2], a[2] * b[2])

RSub(a, b) == RAdd(a, RNeg(b))

RMul(a, b) == Rat(a[1] * b[1], a[2] * b[2])

RInv(a) == IF a[1] < 0 THEN <<-a[2], -a[1]>> ELSE <<a[2], a[1]>>

RDiv(a, b) == RMul(a, RInv(b))

RLeq(a, b) ==
    /\ ~IsNaN(a)
    /\ ~IsNaN(b)
    /\ IF a[2] = 0 /\ b[2] = 0 THEN a[1] <= b[1]
       ELSE a[1] * b[2] <= b[1] * a[2]

RGeq(a, b) == RLeq(b, a)

Isqrt(n) == CHOOSE r \in 0..n : r * r <= n /\ n < (r + 1) * (r + 1)

IsSquare(n) == Isqrt(n) * Isqrt(n) = n

\* Square root of a finite number >= 0: exact when it is rational, else
\* rounded down to three decimals.
RSqrt(a) ==
    IF IsSquare(a[1]) /\ IsSquare(a[2]) THEN Rat(Isqrt(a[1]), Isqrt(a[2]))
    ELSE Rat(Isqrt(a[1] * a[2] * 1000000), a[2] * 1000)

Half == Rat(1, 2)

Hundred == FromInt(100)

RECURSIVE RSum(_)
RSum(s) == IF s = <<>> THEN FromInt(0) ELSE RAdd(Head(s), RSum(Tail(s)))

Range(s) == {s[i] : i \in DOMAIN s}

\* The elements of a finite set of numbers without nan, highest first.
RECURSIVE SortDesc(_)
SortDesc(S) ==
    IF S = {} THEN <<>>
    ELSE LET m == CHOOSE x \in S : \A y \in S : RLeq(y, x)
         IN  <<m>> \o SortDesc(S \ {m})


(***************************************************************************)
(* Metric Calculator (sugar.metrics.calculate_eer / calculate_mindcf).     *)
(* labs is a sequence of 0/1, scores a sequence of numbers.  The sweep     *)
(* visits the reject-all threshold and then every unique score, highest    *)
(* first; a trial is accepted when its score is at least the threshold.    *)
(***************************************************************************)
Thresholds(scores) ==
    LET sorted == SortDesc({x \in Range(scores) : ~IsNaN(x)})
    IN  <<[top |-> TRUE, v |-> NaN]>>
            \o [i \in 1..Len(sorted) |-> [top |-> FALSE, v |-> sorted[i]]]

Accepted(s, t) == ~t.top /\ RGeq(s, t.v)

Positives(labs) == {i \in DOMAIN labs : labs[i] = 1}

Negatives(labs) == {i \in DOMAIN labs : labs[i] = 0}

\* False-accept rate at threshold t: accepted impostors / impostors.
FAR(labs, scores, t) ==
    RDiv(FromInt(Cardinality({i \in Negatives(labs) : Accepted(scores[i], t)})),
         FromInt(Cardinality(Negatives(labs))))

\* False-reject rate at threshold t: rejected genuine trials / genuine trials.
FRR(labs, scores, t) ==
    RDiv(FromInt(Cardinality({i \in Positives(labs) : ~Accepted(scores[i], t)})),
         FromInt(Cardinality(Positives(labs))))

RocPoints(labs, scores) ==
    LET thr == Thresholds(scores)
    IN  [i \in 1..Len(thr) |->
            [thr |-> thr[i].v,
             far |-> FAR(labs, scores, thr[i]),
             frr |-> FRR(labs, scores, thr[i])]]

\* Label vector and score vector of different lengths: a fatal
\* input-contract violation, raised before anything is computed.
MetricRaises(labs, scores) == Len(labs) # Len(scores)

\* <<EER, threshold>>: the FAR/FRR value where the two curves cross, by
\* linear interpolation between the two sweep points that bracket equality.
\* With a single-class label vector one rate is 0/0 at every threshold, no
\* crossing is found and the result is nan.
calculate_eer(labs, scores) ==
    LET pts == RocPoints(labs, scores)
        cross == {i \in DOMAIN pts : RGeq(pts[i].far, pts[i].frr)}
    IN  IF cross = {} THEN <<NaN, NaN>>
        ELSE LET i == CHOOSE j \in cross : \A k \in cross : j <= k
                 a0 == pts[i - 1].far
                 r0 == pts[i - 1].frr
                 a1 == pts[i].far
                 r1 == pts[i].frr
                 d == RAdd(RSub(a1, a0), RSub(r0, r1))
             IN  <<RAdd(a0, RDiv(RMul(RSub(r0, a0), RSub(a1, a0)), d)), pts[i].thr>>

\* DCF(t) = c_miss * FRR(t) * p_target + c_fa * FAR(t) * (1 - p_target)
DCF(pt, p_target, c_miss, c_fa) ==
    RAdd(RMul(RMul(c_miss, pt.frr), p_target),
         RMul(RMul(c_fa, pt.far), RSub(FromInt(1), p_target)))

\* <<minDCF, threshold>>: the minimum of DCF over the same sweep.
calculate_mindcf(labs, scores, p_target, c_miss, c_fa) ==
    LET pts == RocPoints(labs, scores)
        costs == [i \in DOMAIN pts |-> DCF(pts[i], p_target, c_miss, c_fa)]
    IN  IF \E i \in DOMAIN costs : IsNaN(costs[i]) THEN <<NaN, NaN>>
        ELSE LET i == CHOOSE j \in DOMAIN costs :
                          \A k \in DOMAIN costs : RLeq(costs[j], costs[k])
             IN  <<costs[i], pts[i].thr>>

(***************************************************************************)
(* Data: utterances, embeddings, trial lists.                              *)
(***************************************************************************)
Utts == 1..NumUtts

CohortIds == 1..NumCohort

\* Length-normalised embeddings (unit vectors), so that cosine similarity is
\* the dot product and every score is exact.
EmbList == << <<1, 0>>, <<0, 1>>, <<-1, 0>>, <<0, -1>> >>

CohortEmb == {EmbList[1], EmbList[2], EmbList[3]}

\* The subnet's embedding of test utterance u (the model collaborator: an
\* opaque, deterministic function of the utterance).
SubnetEmbedding(u) == EmbList[((u - 1) % 4) + 1]

\* A test condition as veriset returns it: three index-aligned lists.
Datasets ==
    UNION {{[enrolls |-> e, tests |-> t, labels |-> l] :
               e \in [1..n -> Utts], t \in [1..n -> Utts], l \in [1..n -> {0, 1}]} :
           n \in 1..MaxTrials}

RECURSIVE Unique(_)
Unique(s) ==
    IF s = <<>> THEN <<>>
    ELSE LET r == Unique(SubSeq(s, 1, Len(s) - 1))
         IN  IF s[Len(s)] \in Range(r) THEN r ELSE Append(r, s[Len(s)])

\* The utterances of a test condition, in order of first appearance.
WavFiles(d) ==
    Unique([i \in 1..(2 * Len(d.enrolls)) |->
               IF i % 2 = 1 THEN d.enrolls[(i + 1) \div 2] ELSE d.tests[i \div 2]])

Perms(s) ==
    {p \in [1..Len(s) -> Range(s)] : \A i, j \in 1..Len(s) : i # j => p[i] # p[j]}

(***************************************************************************)
(* A Python dict: a sequence of <<key, value>> in insertion order.         *)
(***************************************************************************)
Keys(d) == {d[i][1] : i \in DOMAIN d}

Lookup(d, k) == d[CHOOSE i \in DOMAIN d : d[i][1] = k][2]

Values(d) == [i \in DOMAIN d |-> d[i][2]]

AsMap(d) == [k \in Keys(d) |-> Lookup(d, k)]

(***************************************************************************)
(* Score Computer: cosine similarity of two unit-length embeddings.        *)
(***************************************************************************)
Cosine(a, b) == FromInt(a[1] * b[1] + a[2] * b[2])

\* extract_vectors over test utterances taken in the given order.
extract_vectors(order) == [i \in DOMAIN order |-> <<order[i], SubnetEmbedding(order[i])>>]

\* veri_validate looks an utterance up in a dict that lacks it.
KeyError(d, vectors) == \E u \in Range(WavFiles(d)) : u \notin Keys(vectors)

\* veri_validate(..., ret_info=True): one score per trial, in trial order, and
\* the two metrics of the raw scores.
veri_validate(d, vectors, p_target) ==
    LET scores == [i \in DOMAIN d.enrolls |->
                      Cosine(Lookup(vectors, d.enrolls[i]), Lookup(vectors, d.tests[i]))]
    IN  [eer |-> calculate_eer(d.labels, scores),
         dcf |-> calculate_mindcf(d.labels, scores, p_target, FromInt(1), FromInt(1)),
         vec |-> vectors,
         scs |-> scores]

(***************************************************************************)
(* Cohort Normalizer: score_cohorts and asnorm.                            *)
(***************************************************************************)
CohortScores(e, cohort) == [j \in DOMAIN cohort |-> Cosine(e, cohort[j])]

\* The k highest entries of a sequence of numbers, highest first.
RECURSIVE TopKOf(_, _)
TopKOf(s, k) ==
    IF k = 0 \/ s = <<>> THEN <<>>
    ELSE LET i == CHOOSE j \in DOMAIN s : \A l \in DOMAIN s : RLeq(s[l], s[j])
             rest == [l \in 1..(Len(s) - 1) |-> IF l < i THEN s[l] ELSE s[l + 1]]
         IN  <<s[i]>> \o TopKOf(rest, k - 1)

Mean(s) == RDiv(RSum(s), FromInt(Len(s)))

Std(s) ==
    LET m == Mean(s)
    IN  RSqrt(Mean([i \in DOMAIN s |-> RMul(RSub(s[i], m), RSub(s[i], m))]))

\* Normalization statistics of one utterance: mean and standard deviation
\* of its top-k cohort scores.
CohortStats(e, cohort) ==
    LET top == TopKOf(CohortScores(e, cohort), TopK)
    IN  [mean |-> Mean(top), std |-> Std(top)]

\* score_cohorts(cohorts, vec): the statistics of every utterance of vec,
\* keyed by utterance id.
score_cohorts(cohort, vectors) ==
    [u \in Keys(vectors) |-> CohortStats(Lookup(vectors, u), cohort)]

ZNorm(raw, st) == RDiv(RSub(raw, st.mean), st.std)

\* asnorm adding the two z-normalizations without halving the sum.
asnorm_sum(frame, stats) ==
    [i \in DOMAIN frame |->
        RAdd(ZNorm(frame[i].score, stats[frame[i].enroll]),
             ZNorm(frame[i].score, stats[frame[i].test]))]

\* asnorm(scs, cohorts_o): one normalized score per row of scs, in row order.
asnorm(frame, stats) ==
    [i \in DOMAIN frame |->
        RMul(Half, RAdd(ZNorm(frame[i].score, stats[frame[i].enroll]),
                        ZNorm(frame[i].score, stats[frame[i].test])))]


(***************************************************************************)
(* State of a notebook run.                                                *)
(***************************************************************************)
VARIABLES
    cohortset,   \* the subnet's embedding of each line of the cohort list
    cohorts,     \* the cohort tensor (rows in dict insertion order), or None
    dataset,     \* test_loader.dataset of the last eval_veri call
    vec,         \* utterance vectors of the last eval_veri call (a dict)
    scs,         \* its DataFrame: rows [score, enroll, test]
    veriOut,     \* its outcome: [status, eer, dcf]
    pc,          \* position inside eval_asnorm: idle, scored, normed
    cohorts_o,   \* eval_asnorm's local: statistics keyed by utterance id
    asso,        \* eval_asnorm's local: normalized scores
    asnormOut,   \* outcome of eval_asnorm on the last eval_veri outputs
    statCount,   \* how often each utterance's statistics were computed
    calls,       \* eval_veri calls so far
    kArg,        \* <<k>>: cohort subset size the caller handed to eval_asnorm; or None
    tLabs,       \* metrics alone: label vector
    tScores,     \* metrics alone: score vector
    tRes,        \* metrics alone: <<EER %, minDCF>> of tScores
    tScores2,    \* metrics alone: the scores after a rescaling
    tRes2,       \* metrics alone: <<EER %, minDCF>> of tScores2
    tP,          \* metrics alone: the p_target argument of the call
    tResSub,     \* metrics alone: <<EER %, minDCF>>, SubnetEvaluation's helper
    model_bak,   \* subnet loop: model_bak.module.__S__, the backup supernet
    model,       \* subnet loop: model.module.__S__, what is calibrated and evaluated
    bnFile,      \* subnet loop: content of each config's .bn.pth file, None if absent
    config,      \* subnet loop: the loop variable (0 before the first iteration)
    lpc,         \* subnet loop: idle, cloned, forwarded, ready
    trace        \* subnet loop: steps run so far, with the subnet and file after each

pipeVars == <<cohortset, cohorts, dataset, vec, scs, veriOut, pc, cohorts_o,
              asso, asnormOut, statCount, calls, kArg>>

metricVars == <<tLabs, tScores, tRes, tScores2, tRes2, tP, tResSub>>

loopVars == <<model_bak, model, bnFile, config, lpc, trace>>

vars == <<pipeVars, metricVars, loopVars>>

PTargets == {Rat(1, 100), Rat(1, 2)}

(***************************************************************************)
(* Subnet loop data (SubnetEvaluation.ipynb).  A network is a record: arch *)
(* is its architecture (0 the whole supernet, else a config), from the     *)
(* architecture its weights were sliced from, bn its batch-norm            *)
(* statistics.  Statistics are <<0, 0>> for the supernet checkpoint's and  *)
(* <<c, d>> for those calibrated for config c on the d-th possible draw of *)
(* shuffled, augmented training batches.                                   *)
(***************************************************************************)
Configs == 1..NumConfigs

Supernet == [arch |-> 0, from |-> 0, bn |-> <<0, 0>>]

CalibratedBN == {<<c, d>> : c \in Configs, d \in 1..NumDraws}

\* The notebook before the loop cell: model_bak = copy.deepcopy(model), no
\* statistics file written by this notebook yet.
LoopIdle ==
    /\ model_bak = Supernet
    /\ model = Supernet
    /\ bnFile = [c \in Configs |-> None]
    /\ config = 0
    /\ lpc = "idle"
    /\ trace = <<>>

LabelVectors == UNION {[1..n -> {0, 1}] : n \in 1..MaxTrials}

NoOutcome == [status |-> "none", eer |-> None, dcf |-> None]

NoNorm == [status |-> "none", eer |-> None, dcf |-> None, labs |-> None]

(***************************************************************************)
(* Cohort cell: extract_vectors over the cohort list, then torch.cat of    *)
(* the dict's values.  order is the order in which the lines are extracted *)
(* (the DataLoader takes them first to last).                              *)
(***************************************************************************)
SeqOrder == [i \in CohortIds |-> i]

CohortDict(order) == [i \in DOMAIN order |-> <<order[i], cohortset[order[i]]>>]

\* torch.cat over all but the last inserted value.
CohortTensorDropLast(d) == SubSeq(Values(d), 1, Len(d) - 1)

CohortTensor(d) == Values(d)

CohortCell(order) ==
    /\ cohorts = None
    /\ cohorts' = CohortTensor(CohortDict(order))
    /\ UNCHANGED <<cohortset, dataset, vec, scs, veriOut, pc, cohorts_o, asso,
                   asnormOut, statCount, calls, kArg, metricVars, loopVars>>

(***************************************************************************)
(* eval_veri (EfficientTDNN.ipynb): p_target is not forwarded, 0.01 is.    *)
(***************************************************************************)
\* eval_veri building the frame with the score column reversed.
eval_veri_frame_reversed(scores, d) ==
    [i \in DOMAIN scores |->
        [score |-> scores[Len(scores) + 1 - i], enroll |-> d.enrolls[i],
         test |-> d.tests[i]]]

\* eval_veri filling the test column from dataset.enrolls as well.
eval_veri_frame_enroll_twice(scores, d) ==
    [i \in DOMAIN scores |->
        [score |-> scores[i], enroll |-> d.enrolls[i], test |-> d.enrolls[i]]]

eval_veri_frame(scores, d) ==
    [i \in DOMAIN scores |->
        [score |-> scores[i], enroll |-> d.enrolls[i], test |-> d.tests[i]]]

eval_veri_return(r, d) ==
    [eer |-> RMul(r.eer[1], Hundred),
     dcf |-> r.dcf[1],
     vec |-> r.vec,
     scs |-> eval_veri_frame(r.scs, d)]

eval_veri(d, vectors, p_target) ==
    eval_veri_return(veri_validate(d, vectors, Rat(1, 100)), d)

\* One evaluation cell: eval_veri on test condition d.  given is the
\* vectors argument: None (extract, in the given order) or a dict that an
\* earlier eval_veri returned.
EvalVeri(d, given, order, p_target) ==
    /\ pc = "idle"
    /\ cohorts # None
    /\ LET vectors == IF given = None THEN extract_vectors(order) ELSE given
       IN  IF KeyError(d, vectors)
           THEN /\ veriOut' = [status |-> "error", eer |-> None, dcf |-> None]
                /\ scs' = None
                /\ vec' = vec
           ELSE LET r == eval_veri(d, vectors, p_target)
                IN  /\ veriOut' = [status |-> "ok", eer |-> r.eer, dcf |-> r.dcf]
                    /\ scs' = r.scs
                    /\ vec' = r.vec
    /\ dataset' = d
    /\ asnormOut' = NoNorm
    /\ calls' = calls + 1
    /\ kArg' = None
    /\ UNCHANGED <<cohortset, cohorts, pc, cohorts_o, asso, statCount, metricVars, loopVars>>

(***************************************************************************)
(* eval_asnorm (EfficientTDNN.ipynb), statement by statement.              *)
(***************************************************************************)
\* score_cohorts walking the rows of scs, one computation per appearance.
ScoreCohortsPerAppearance ==
    /\ pc = "idle"
    /\ veriOut.status = "ok"
    /\ asnormOut.status = "none"
    /\ cohorts_o' = score_cohorts(cohorts, vec)
    /\ statCount' = [u \in Utts |->
           statCount[u] + Cardinality({i \in DOMAIN scs : scs[i].enroll = u})
                        + Cardinality({i \in DOMAIN scs : scs[i].test = u})]
    /\ pc' = "scored"
    /\ UNCHANGED <<cohortset, cohorts, dataset, vec, scs, veriOut, asso,
                   asnormOut, calls, kArg, metricVars, loopVars>>

\* cohorts_o = score_cohorts(cohorts, vec)
ScoreCohortsStep ==
    /\ pc = "idle"
    /\ veriOut.status = "ok"
    /\ asnormOut.status = "none"
    /\ cohorts_o' = score_cohorts(cohorts, vec)
    /\ statCount' = [u \in Utts |-> IF u \in Keys(vec) THEN statCount[u] + 1
                                    ELSE statCount[u]]
    /\ pc' = "scored"
    /\ UNCHANGED <<cohortset, cohorts, dataset, vec, scs, veriOut, asso,
                   asnormOut, calls, kArg, metricVars, loopVars>>

\* asso = asnorm(scs, cohorts_o)
AsnormStep ==
    /\ pc = "scored"
    /\ asso' = asnorm(scs, cohorts_o)
    /\ pc' = "normed"
    /\ UNCHANGED <<cohortset, cohorts, dataset, vec, scs, veriOut, cohorts_o,
                   asnormOut, statCount, calls, kArg, metricVars, loopVars>>

\* eval_asnorm taking element [1] (the threshold) of calculate_eer's result.
asnorm_metrics_wrong_index(labs, scores, p_target) ==
    <<RMul(calculate_eer(labs, scores)[2], Hundred),
      calculate_mindcf(labs, scores, Rat(1, 100), FromInt(1), FromInt(1))[1]>>

\* eval_asnorm returning the EER as a fraction, not a percentage.
asnorm_metrics_no_percent(labs, scores, p_target) ==
    <<calculate_eer(labs, scores)[1],
      calculate_mindcf(labs, scores, Rat(1, 100), FromInt(1), FromInt(1))[1]>>

\* calculate_eer(labs, asso)[0] * 100, calculate_mindcf(labs, asso, p_target=0.01)[0]
asnorm_metrics(labs, scores, p_target) ==
    <<RMul(calculate_eer(labs, scores)[1], Hundred),
      calculate_mindcf(labs, scores, Rat(1, 100), FromInt(1), FromInt(1))[1]>>

\* eval_asnorm cutting both vectors to their common length first.
eval_asnorm_return_truncating(labs, scores, p_target) ==
    LET n == IF Len(labs) < Len(scores) THEN Len(labs) ELSE Len(scores)
        m == asnorm_metrics(SubSeq(labs, 1, n), SubSeq(scores, 1, n), p_target)
    IN  [status |-> "ok", eer |-> m[1], dcf |-> m[2], labs |-> labs]

eval_asnorm_return(labs, scores, p_target) ==
    IF MetricRaises(labs, scores)
    THEN [status |-> "error", eer |-> None, dcf |-> None, labs |-> labs]
    ELSE LET m == asnorm_metrics(labs, scores, p_target)
         IN  [status |-> "ok", eer |-> m[1], dcf |-> m[2], labs |-> labs]

\* The two metric lines and the return; labs and p_target are the call's
\* arguments, read here for the first time.
MetricsStep(labs, p_target) ==
    /\ pc = "normed"
    /\ asnormOut' = eval_asnorm_return(labs, asso, p_target)
    /\ pc' = "idle"
    /\ cohorts_o' = None
    /\ asso' = None
    /\ UNCHANGED <<cohortset, cohorts, dataset, vec, scs, veriOut, statCount,
                   calls, kArg, metricVars, loopVars>>

\* eval_asnorm(labs, vec, scs, cohorts, k=k): the function takes labs, vec,
\* scs, cohorts and p_target only, so the call is a TypeError before its
\* first statement.  Nothing else of eval_asnorm, score_cohorts(cohorts, vec)
\* or asnorm(scs, cohorts_o) as called accepts a cohort subset size.
EvalAsnormK(labs, k) ==
    /\ pc = "idle"
    /\ veriOut.status = "ok"
    /\ asnormOut.status = "none"
    /\ kArg' = <<k>>
    /\ asnormOut' = [status |-> "error", eer |-> None, dcf |-> None, labs |-> labs]
    /\ UNCHANGED <<cohortset, cohorts, dataset, vec, scs, veriOut, pc, cohorts_o,
                   asso, statCount, calls, metricVars, loopVars>>

(***************************************************************************)
(* One test condition, as the notebook evaluates it (sequential            *)
(* extraction), over every cohort list, trial list and vectors argument.   *)
(***************************************************************************)
\* Embeddings of the cohort list.  Nothing downstream of the cohort cell
\* depends on which line carries which embedding beyond the order of the
\* tensor rows, and every order of the rows is reached through the order
\* of extraction (SpecAnyOrder), so the list itself is taken sorted.
CohortSets ==
    {c \in [CohortIds -> CohortEmb] :
        \A i, j \in CohortIds :
            i < j => \E a, b \in DOMAIN EmbList :
                        a <= b /\ EmbList[a] = c[i] /\ EmbList[b] = c[j]}

Init ==
    /\ cohortset \in CohortSets
    /\ cohorts = None
    /\ dataset = None
    /\ vec = None
    /\ scs = None
    /\ veriOut = NoOutcome
    /\ pc = "idle"
    /\ cohorts_o = None
    /\ asso = None
    /\ asnormOut = NoNorm
    /\ statCount = [u \in Utts |-> 0]
    /\ calls = 0
    /\ kArg = None
    /\ tLabs = None
    /\ tScores = None
    /\ tRes = None
    /\ tScores2 = None
    /\ tRes2 = None
    /\ tP = None
    /\ tResSub = None
    /\ LoopIdle

\* The dicts an earlier eval_veri can have returned.
PriorVectors == {extract_vectors(WavFiles(d)) : d \in Datasets}

Next ==
    \/ CohortCell(SeqOrder)
    \/ \E d \in Datasets, given \in {None} \cup PriorVectors, p \in PTargets :
          calls = 0 /\ EvalVeri(d, given, WavFiles(d), p)
    \/ ScoreCohortsStep
    \/ AsnormStep
    \/ \E labs \in LabelVectors, p \in PTargets : MetricsStep(labs, p)
    \/ \E k \in 1..NumCohort : EvalAsnormK(dataset.labels, k)

Spec == Init /\ [][Next]_vars

(***************************************************************************)
(* A run over two test conditions in a row (Vox1-E, then Vox1-H with       *)
(* vectors=vece or another condition with fresh vectors), one cohort list. *)
(* eval_asnorm is given the condition's own labels, as the cells do.       *)
(***************************************************************************)
RunCohort == [c \in CohortIds |-> EmbList[((c - 1) % 3) + 1]]

RunDatasets == {d \in Datasets : \A i \in DOMAIN d.labels : d.labels[i] = i % 2}

InitRun == Init /\ cohortset = RunCohort

NextRun ==
    \/ CohortCell(SeqOrder)
    \/ \E d \in RunDatasets, reuse \in BOOLEAN :
          /\ calls < MaxCalls
          /\ reuse => vec # None
          /\ EvalVeri(d, IF reuse THEN vec ELSE None, WavFiles(d), Rat(1, 100))
    \/ ScoreCohortsStep
    \/ AsnormStep
    \/ MetricsStep(dataset.labels, Rat(1, 100))

SpecRun == InitRun /\ [][NextRun]_vars

(***************************************************************************)
(* One test condition with the utterances extracted in any order (batched  *)
(* or parallel extraction): cohort lines and test utterances alike.        *)
(***************************************************************************)
NextAnyOrder ==
    \/ \E order \in Perms(SeqOrder) : CohortCell(order)
    \/ \E d \in RunDatasets : \E order \in Perms(WavFiles(d)) :
          calls = 0 /\ EvalVeri(d, None, order, Rat(1, 100))
    \/ ScoreCohortsStep
    \/ AsnormStep
    \/ MetricsStep(dataset.labels, Rat(1, 100))

SpecAnyOrder == Init /\ [][NextAnyOrder]_vars

(***************************************************************************)
(* The metric lines of eval_asnorm alone, on every label vector and score  *)
(* vector of equal length, and again after a strictly increasing map of    *)
(* the scores.                                                             *)
(***************************************************************************)
ScoreVals == 0..MaxScore

Rescalings ==
    {f \in [ScoreVals -> 0..(MaxScore + 1)] : \A a, b \in ScoreVals : a < b => f[a] < f[b]}

InitMetric ==
    /\ \E n \in 1..MaxLen :
          /\ tLabs \in [1..n -> {0, 1}]
          /\ tScores \in [1..n -> {FromInt(v) : v \in ScoreVals}]
    /\ tRes = None
    /\ tScores2 = None
    /\ tRes2 = None
    /\ tP = None
    /\ tResSub = None
    /\ LoopIdle
    /\ cohortset = RunCohort
    /\ cohorts = None
    /\ dataset = None
    /\ vec = None
    /\ scs = None
    /\ veriOut = NoOutcome
    /\ pc = "idle"
    /\ cohorts_o = None
    /\ asso = None
    /\ asnormOut = NoNorm
    /\ statCount = [u \in Utts |-> 0]
    /\ calls = 0
    /\ kArg = None

\* SubnetEvaluation.ipynb, eval_asnorm passing p_target=0.01 whatever it is given.
subnet_asnorm_metrics_fixed_prior(labs, scores, p_target) ==
    <<RMul(calculate_eer(labs, scores)[1], Hundred),
      calculate_mindcf(labs, scores, Rat(1, 100), FromInt(1), FromInt(1))[1]>>

\* SubnetEvaluation.ipynb, eval_asnorm:
\* calculate_eer(labs, asso)[0] * 100, calculate_mindcf(labs, asso, p_target=p_target)[0]
subnet_asnorm_metrics(labs, scores, p_target) ==
    <<RMul(calculate_eer(labs, scores)[1], Hundred),
      calculate_mindcf(labs, scores, p_target, FromInt(1), FromInt(1))[1]>>

\* Both notebooks' metric lines on the same labels, scores and p_target.
ApplyMetrics(p_target) ==
    /\ tRes = None
    /\ tRes' = asnorm_metrics(tLabs, tScores, p_target)
    /\ tP' = p_target
    /\ tResSub' = subnet_asnorm_metrics(tLabs, tScores, p_target)
    /\ UNCHANGED <<pipeVars, loopVars, tLabs, tScores, tScores2, tRes2>>

RescaleAndApply(f, p_target) ==
    /\ tRes # None
    /\ tScores2 = None
    /\ tScores2' = [i \in DOMAIN tScores |-> FromInt(f[tScores[i][1]])]
    /\ tRes2' = asnorm_metrics(tLabs, tScores2', p_target)
    /\ UNCHANGED <<pipeVars, loopVars, tLabs, tScores, tRes, tP, tResSub>>

NextMetric ==
    \/ \E p \in PTargets : ApplyMetrics(p)
    \/ \E f \in Rescalings, p \in PTargets : RescaleAndApply(f, p)

SpecMetric == InitMetric /\ [][NextMetric]_vars

(***************************************************************************)
(* The asnorm line of eval_asnorm alone: a frame of one trial with any raw *)
(* score, and any statistics for the utterances.                           *)
(***************************************************************************)
RawVals == {Rat(n, 2) : n \in (0 - MaxRaw)..MaxRaw}

StatChoices ==
    [mean : {FromInt(0), Half, FromInt(-1)}, std : {FromInt(1), Half, FromInt(0)}]

InitNorm ==
    /\ \E raw \in RawVals, e \in Utts, t \in Utts :
          scs = <<[score |-> raw, enroll |-> e, test |-> t]>>
    /\ cohorts_o \in [Utts -> StatChoices]
    /\ pc = "scored"
    /\ cohortset = RunCohort
    /\ cohorts = None
    /\ dataset = None
    /\ vec = None
    /\ veriOut = NoOutcome
    /\ asso = None
    /\ asnormOut = NoNorm
    /\ statCount = [u \in Utts |-> 0]
    /\ calls = 0
    /\ kArg = None
    /\ tLabs = None
    /\ tScores = None
    /\ tRes = None
    /\ tScores2 = None
    /\ tRes2 = None
    /\ tP = None
    /\ tResSub = None
    /\ LoopIdle

NextNorm == AsnormStep

SpecNorm == InitNorm /\ [][NextNorm]_vars

(***************************************************************************)
(* The subnet loop of SubnetEvaluation.ipynb, statement by statement.  An  *)
(* iteration may take any config, so every configs list, every order and   *)
(* every re-run of the cell is covered; the statistics files may already   *)
(* exist from an earlier session.                                          *)
(***************************************************************************)
\* S.clone(config): a network of architecture config on the weights of S,
\* with its own copy of the statistics of S.
clone(S, c) == [arch |-> c, from |-> S.arch, bn |-> S.bn]

Entry(step, S, files) ==
    [cfg |-> S.arch, step |-> step, S |-> S, file |-> files[S.arch]]

Iterations == Cardinality({i \in DOMAIN trace : trace[i].step = "clone"})

\* The loop cloning from the model it evaluated last, not from the backup.
CloneFromModel(c) ==
    /\ lpc = "idle"
    /\ Iterations < MaxIters
    /\ config' = c
    /\ model' = clone(model, c)
    /\ lpc' = "cloned"
    /\ trace' = Append(trace, Entry("clone", model', bnFile))
    /\ UNCHANGED <<pipeVars, metricVars, model_bak, bnFile>>

\* model.module.__S__ = model_bak.module.__S__.clone(config); bn_path = ...
CloneStep(c) ==
    /\ lpc = "idle"
    /\ Iterations < MaxIters
    /\ config' = c
    /\ model' = clone(model_bak, c)
    /\ lpc' = "cloned"
    /\ trace' = Append(trace, Entry("clone", model', bnFile))
    /\ UNCHANGED <<pipeVars, metricVars, model_bak, bnFile>>

\* if os.path.exists(bn_path): load_bn_state_dict(model.module.__S__, torch.load(bn_path))
LoadStep ==
    /\ lpc = "cloned"
    /\ bnFile[config] # None
    /\ model' = [model EXCEPT !.bn = bnFile[config]]
    /\ lpc' = "ready"
    /\ trace' = Append(trace, Entry("load", model', bnFile))
    /\ UNCHANGED <<pipeVars, metricVars, model_bak, bnFile, config>>

\* batch_forward whether or not the statistics file exists.
BatchForwardAlways(draw) ==
    /\ lpc = "cloned"
    /\ model' = [model EXCEPT !.bn = <<config, draw>>]
    /\ lpc' = "forwarded"
    /\ trace' = Append(trace, Entry("forward", model', bnFile))
    /\ UNCHANGED <<pipeVars, metricVars, model_bak, bnFile, config>>

\* else: batch_forward(train_loader, model, device=device).  train_loader
\* shuffles and augments, so the statistics it leaves are one of several.
BatchForwardStep(draw) ==
    /\ lpc = "cloned"
    /\ bnFile[config] = None
    /\ model' = [model EXCEPT !.bn = <<config, draw>>]
    /\ lpc' = "forwarded"
    /\ trace' = Append(trace, Entry("forward", model', bnFile))
    /\ UNCHANGED <<pipeVars, metricVars, model_bak, bnFile, config>>

\* torch.save(bn_state_dict(model.module.__S__), bn_path)
SaveStep ==
    /\ lpc = "forwarded"
    /\ bnFile' = [bnFile EXCEPT ![config] = model.bn]
    /\ lpc' = "ready"
    /\ trace' = Append(trace, Entry("save", model, bnFile'))
    /\ UNCHANGED <<pipeVars, metricVars, model_bak, model, config>>

\* eero, dcfo, veco, scso = eval_veri(testo_loader, model, device=device)
EvalStep ==
    /\ lpc = "ready"
    /\ lpc' = "idle"
    /\ trace' = Append(trace, Entry("eval", model, bnFile))
    /\ UNCHANGED <<pipeVars, metricVars, model_bak, model, bnFile, config>>

InitLoop ==
    /\ model_bak = Supernet
    /\ model = Supernet
    /\ bnFile \in [Configs -> {None} \cup CalibratedBN]
    /\ \A c \in Configs : bnFile[c] # None => bnFile[c][1] = c
    /\ config = 0
    /\ lpc = "idle"
    /\ trace = <<>>
    /\ cohortset = RunCohort
    /\ cohorts = None
    /\ dataset = None
    /\ vec = None
    /\ scs = None
    /\ veriOut = NoOutcome
    /\ pc = "idle"
    /\ cohorts_o = None
    /\ asso = None
    /\ asnormOut = NoNorm
    /\ statCount = [u \in Utts |-> 0]
    /\ calls = 0
    /\ kArg = None
    /\ tLabs = None
    /\ tScores = None
    /\ tRes = None
    /\ tScores2 = None
    /\ tRes2 = None
    /\ tP = None
    /\ tResSub = None

NextLoop ==
    \/ \E c \in Configs : CloneStep(c)
    \/ LoadStep
    \/ \E draw \in 1..NumDraws : BatchForwardStep(draw)
    \/ SaveStep
    \/ EvalStep

SpecLoop == InitLoop /\ [][NextLoop]_vars

(***************************************************************************)
(* Properties.  The reference values below are written out from the trial  *)
(* list itself, trial by trial, without the frame eval_veri builds.        *)
(***************************************************************************)
TwoClass(labs) == Positives(labs) # {} /\ Negatives(labs) # {}

\* Raw cosine score of trial i of test condition d.
RawOf(d, i) ==
    Cosine(SubnetEmbedding(d.enrolls[i]), SubnetEmbedding(d.tests[i]))

\* Cohort statistics of utterance u against the cohort tensor in use.
StatsOf(u) == CohortStats(SubnetEmbedding(u), cohorts)

\* 0.5 * ((raw - mean_e) / std_e + (raw - mean_t) / std_t)
SymNorm(raw, se, st) ==
    RMul(Half, RAdd(RDiv(RSub(raw, se.mean), se.std),
                    RDiv(RSub(raw, st.mean), st.std)))

NormOf(d, i) == SymNorm(RawOf(d, i), StatsOf(d.enrolls[i]), StatsOf(d.tests[i]))

ZeroStd(u) == StatsOf(u).std = FromInt(0)

\* C1: labels, raw scores and normalized scores have the length of the trial
\* list, and position i of each belongs to trial i: the frame row i carries
\* trial i's enrollment id, test id and cosine score, the normalized score i
\* is the one of trial i, and both metric calls pair label i with score i.
C1_IndexAligned ==
    /\ veriOut.status = "ok" =>
          /\ Len(scs) = Len(dataset.labels)
          /\ Len(scs) = Len(dataset.enrolls)
          /\ \A i \in DOMAIN scs :
                /\ scs[i].enroll = dataset.enrolls[i]
                /\ scs[i].test = dataset.tests[i]
                /\ scs[i].score = RawOf(dataset, i)
          /\ veriOut.eer =
                RMul(calculate_eer(dataset.labels,
                        [i \in DOMAIN dataset.labels |-> RawOf(dataset, i)])[1],
                     Hundred)
    /\ pc = "normed" =>
          /\ Len(asso) = Len(dataset.labels)
          /\ \A i \in DOMAIN asso : asso[i] = NormOf(dataset, i)
    /\ (asnormOut.status = "ok" /\ asnormOut.labs = dataset.labels) =>
          asnormOut.eer =
             RMul(calculate_eer(dataset.labels,
                     [i \in DOMAIN dataset.labels |-> NormOf(dataset, i)])[1],
                  Hundred)

\* C1 witness: two trials with different raw and different normalized scores
\* went through eval_veri and eval_asnorm with the condition's own labels.
C1_Witness ==
    /\ asnormOut.status = "ok"
    /\ asnormOut.labs = dataset.labels
    /\ Len(dataset.labels) = 2
    /\ TwoClass(dataset.labels)
    /\ RawOf(dataset, 1) # RawOf(dataset, 2)
    /\ IsFinite(NormOf(dataset, 1))
    /\ IsFinite(NormOf(dataset, 2))
    /\ NormOf(dataset, 1) # NormOf(dataset, 2)

\* C2: every normalized score is the mean of two z-normalizations of the raw
\* score, one with the cohort mean and standard deviation of the trial's own
\* enrollment utterance and one with those of its own test utterance.
C2_OwnStatistics ==
    pc = "normed" =>
        \A i \in DOMAIN asso :
            LET raw == scs[i].score
                me == StatsOf(dataset.enrolls[i]).mean
                sde == StatsOf(dataset.enrolls[i]).std
                mt == StatsOf(dataset.tests[i]).mean
                sdt == StatsOf(dataset.tests[i]).std
            IN  asso[i] = RMul(Half, RAdd(RDiv(RSub(raw, me), sde),
                                          RDiv(RSub(raw, mt), sdt)))

\* C2 witness: a normalized trial whose enrollment and test utterances have
\* different cohort statistics, both with a non-zero standard deviation.
C2_Witness ==
    /\ pc = "normed"
    /\ \E i \in DOMAIN asso :
          /\ dataset.enrolls[i] # dataset.tests[i]
          /\ StatsOf(dataset.enrolls[i]) # StatsOf(dataset.tests[i])
          /\ ~ZeroStd(dataset.enrolls[i])
          /\ ~ZeroStd(dataset.tests[i])
          /\ IsFinite(asso[i])

\* C3: when the cohort standard deviation of an utterance used in a trial is
\* zero, eval_asnorm ends in an explicit failure, never with metric values
\* (stated for label vectors of the right length holding both classes).
C3_ZeroStdFails ==
    (/\ asnormOut.status # "none"
     /\ Len(asnormOut.labs) = Len(scs)
     /\ TwoClass(asnormOut.labs)
     /\ \E i \in DOMAIN scs : ZeroStd(scs[i].enroll) \/ ZeroStd(scs[i].test))
    => asnormOut.status = "error"

\* C4: a label vector holding one class only makes eval_veri and eval_asnorm
\* end in an error, so a call that returned metrics had both classes.
C4_SingleClassFails ==
    /\ veriOut.status = "ok" => TwoClass(dataset.labels)
    /\ asnormOut.status = "ok" => TwoClass(asnormOut.labs)

C6_OncePerRun == \A u \in Utts : statCount[u] <= 1

\* C6: within one eval_asnorm call the statistics of each utterance of vec
\* are computed exactly once, in the score_cohorts step and nowhere else;
\* they cover every utterance of the frame before the first trial is
\* normalized and stay as they are while the call normalizes.
C6_OncePerCall ==
    [][/\ \A u \in Utts :
             /\ (pc = "idle" /\ pc' = "scored" /\ u \in Keys(vec))
                   => statCount'[u] = statCount[u] + 1
             /\ ~(pc = "idle" /\ pc' = "scored" /\ u \in Keys(vec))
                   => statCount'[u] = statCount[u]
       /\ pc' = "normed" =>
             /\ cohorts_o' = cohorts_o
             /\ \A i \in DOMAIN scs :
                   /\ scs[i].enroll \in DOMAIN cohorts_o
                   /\ scs[i].test \in DOMAIN cohorts_o
       /\ (pc \in {"scored", "normed"} /\ pc' \in {"scored", "normed"})
             => cohorts_o' = cohorts_o]_vars

\* C6 witness: the second condition reused the vectors of the first, an
\* utterance appears in more than one slot of its trial list, and its
\* statistics have been computed once in each of the two eval_asnorm calls.
C6_Witness ==
    /\ calls = 2
    /\ pc = "normed"
    /\ \E u \in Utts :
          /\ statCount[u] = 2
          /\ Cardinality({i \in DOMAIN scs : scs[i].enroll = u})
               + Cardinality({i \in DOMAIN scs : scs[i].test = u}) >= 2

\* Outputs of the run that extracts in file order.
SeqCohorts == Values(CohortDict(SeqOrder))

\* Frame, statistics and normalized scores of that run on test condition d,
\* with raw the scores veri_validate returned for it.
SeqFrame(d, raw) ==
    [i \in DOMAIN d.labels |->
        [score |-> raw[i], enroll |-> d.enrolls[i], test |-> d.tests[i]]]

SeqStats(d) ==
    [u \in Range(WavFiles(d)) |-> CohortStats(SubnetEmbedding(u), SeqCohorts)]

SeqAsso(d, raw, stats) ==
    [i \in DOMAIN d.labels |->
        SymNorm(raw[i], stats[d.enrolls[i]], stats[d.tests[i]])]

\* C7: whatever the order in which the cohort and the test utterances were
\* extracted, the vector bound to each utterance id, the frame, the cohort
\* statistics, the normalized scores and all four metrics equal those of
\* the run that extracts in file order.
C7_OrderIrrelevant ==
    LET seqvec == extract_vectors(WavFiles(dataset))
        seqveri == veri_validate(dataset, seqvec, Rat(1, 100))
        seqstats == SeqStats(dataset)
        seqasso == SeqAsso(dataset, seqveri.scs, seqstats)
    IN  /\ veriOut.status = "ok" =>
              /\ AsMap(vec) = AsMap(seqvec)
              /\ scs = SeqFrame(dataset, seqveri.scs)
              /\ veriOut.eer = RMul(seqveri.eer[1], Hundred)
              /\ veriOut.dcf = seqveri.dcf[1]
        /\ pc \in {"scored", "normed"} => cohorts_o = seqstats
        /\ pc = "normed" => asso = seqasso
        /\ asnormOut.status = "ok" =>
              /\ asnormOut.eer =
                    RMul(calculate_eer(dataset.labels, seqasso)[1], Hundred)
              /\ asnormOut.dcf =
                    calculate_mindcf(dataset.labels, seqasso, Rat(1, 100),
                                     FromInt(1), FromInt(1))[1]

\* C7 witness: cohort and test utterances were both extracted out of file
\* order, the cohort rows differ from the file-order tensor, and eval_asnorm
\* returned finite metrics.
C7_Witness ==
    /\ asnormOut.status = "ok"
    /\ cohorts # SeqCohorts
    /\ vec # extract_vectors(WavFiles(dataset))
    /\ Len(vec) = 2
    /\ TwoClass(dataset.labels)
    /\ IsFinite(asnormOut.eer)

\* Every positive trial scores strictly above every negative trial.
PerfectSeparation(labs, scores) ==
    \A i \in Positives(labs), j \in Negatives(labs) :
        RGeq(scores[i], scores[j]) /\ scores[i] # scores[j]

\* C8: with both classes present and every positive score strictly above
\* every negative score, the EER is exactly 0.
C8_PerfectSeparationZero ==
    (tRes # None /\ TwoClass(tLabs) /\ PerfectSeparation(tLabs, tScores))
        => tRes[1] = FromInt(0)

\* C8 witness: the metrics ran on labels 1,1,0,0 with four different scores,
\* the positives on top.
C8_Witness ==
    /\ tRes # None
    /\ tLabs = <<1, 1, 0, 0>>
    /\ tScores = <<FromInt(3), FromInt(2), FromInt(1), FromInt(0)>>

\* C9: two trials with opposite labels and the same score give an EER of
\* exactly 0.5, which eval_asnorm reports as 50 percent.
C9_TiedPairHalf ==
    (/\ tRes # None
     /\ Len(tLabs) = 2
     /\ TwoClass(tLabs)
     /\ tScores[1] = tScores[2])
        => tRes[1] = FromInt(50)

\* C9 witness: the metrics ran on labels 1,0 with one score for both.
C9_Witness ==
    /\ tRes # None
    /\ tLabs = <<1, 0>>
    /\ tScores[1] = tScores[2]

\* C10: replacing every score by its image under a strictly increasing map
\* leaves the EER of a two-class trial list as it was.
C10_MonotoneInvariant ==
    (tRes2 # None /\ TwoClass(tLabs)) => tRes2[1] = tRes[1]

\* C10 witness: the scores were mapped to different values and the EER of
\* the list is neither 0 nor 100 percent.
C10_Witness ==
    /\ tRes2 # None
    /\ TwoClass(tLabs)
    /\ \A i \in DOMAIN tScores : tScores2[i] # tScores[i]
    /\ tRes[1] # FromInt(0)
    /\ tRes[1] # FromInt(100)
    /\ tRes[1] # FromInt(50)
    /\ IsFinite(tRes[1])

\* False-reject and false-accept rate of the decision "accept when the
\* score is at least t", counted from the trial list.
RejectedGenuine(labs, scores, t) ==
    Rat(Cardinality({i \in Positives(labs) : ~RGeq(scores[i], t)}),
        Cardinality(Positives(labs)))

AcceptedImpostors(labs, scores, t) ==
    Rat(Cardinality({i \in Negatives(labs) : RGeq(scores[i], t)}),
        Cardinality(Negatives(labs)))

\* C_fr * FRR(t) * p_target + C_fa * FAR(t) * (1 - p_target), C_fr = C_fa = 1
CostAt(labs, scores, t, p_target) ==
    RAdd(RMul(RejectedGenuine(labs, scores, t), p_target),
         RMul(AcceptedImpostors(labs, scores, t), RSub(FromInt(1), p_target)))

\* Costs of the sweep: one per unique score, and the one of rejecting every
\* trial (FRR = 1, FAR = 0), where the sweep starts.
SweepCosts(labs, scores, p_target) ==
    {CostAt(labs, scores, t, p_target) : t \in Range(scores)} \cup {p_target}

StatsOfK(u, k) ==
    LET top == TopKOf(CohortScores(SubnetEmbedding(u), cohorts), k)
    IN  [mean |-> Mean(top), std |-> Std(top)]

NormOfK(d, i, k) ==
    SymNorm(RawOf(d, i), StatsOfK(d.enrolls[i], k), StatsOfK(d.tests[i], k))

\* C12: the statistics of an utterance are those of exactly its k highest
\* cohort scores, and k is the caller's to set: an eval_asnorm call that is
\* handed a cohort subset size ends with the metrics of the scores
\* normalized over that many highest cohort scores.
C12_CallerSetsK ==
    /\ pc \in {"scored", "normed"} =>
          \A u \in DOMAIN cohorts_o : cohorts_o[u] = StatsOfK(u, TopK)
    /\ (kArg # None /\ asnormOut.status # "none") =>
          /\ asnormOut.status = "ok"
          /\ asnormOut.eer =
                RMul(calculate_eer(asnormOut.labs,
                        [i \in DOMAIN dataset.labels |-> NormOfK(dataset, i, kArg[1])])[1],
                     Hundred)

UnitStats == [mean |-> FromInt(0), std |-> FromInt(1)]

\* C13: a trial whose enrollment and test utterance both have cohort mean 0
\* and standard deviation 1 keeps its raw score under AS-Norm, whatever
\* the raw score is.
C13_UnitStatsKeepRaw ==
    pc = "normed" =>
        \A i \in DOMAIN asso :
            (/\ cohorts_o[scs[i].enroll] = UnitStats
             /\ cohorts_o[scs[i].test] = UnitStats)
            => asso[i] = scs[i].score

\* C13 witness: a trial of two different utterances, both with mean 0 and
\* standard deviation 1, raw score -1/2, was normalized.
C13_Witness ==
    /\ pc = "normed"
    /\ scs[1].enroll # scs[1].test
    /\ cohorts_o[scs[1].enroll] = UnitStats
    /\ cohorts_o[scs[1].test] = UnitStats
    /\ scs[1].score = Rat(-1, 2)
    /\ asso[1] = Rat(-1, 2)

\* Position of the clone that opened the iteration trace entry i belongs to.
IterStart(i) ==
    CHOOSE j \in 1..i :
        /\ trace[j].step = "clone"
        /\ \A k \in (j + 1)..i : trace[k].step # "clone"

\* The steps of that iteration up to entry i.
StepsUpTo(i) ==
    LET j == IterStart(i)
    IN  [k \in 1..(i - j + 1) |-> trace[j + k - 1].step]

\* C14: every eval_veri of the subnet loop closes an iteration that ran
\* either clone, load, eval with the config's statistics file present from
\* the start and unchanged throughout, or clone, batch_forward, save, eval
\* with the file absent until the save wrote the calibrated statistics; in
\* both the evaluated subnet carries the statistics the file holds, and a
\* later iteration for a config already evaluated finds that file and loads.
C14_LoadOrCalibrate ==
    /\ \A i \in DOMAIN trace :
          trace[i].step = "eval" =>
             LET j == IterStart(i)
             IN  \/ /\ StepsUpTo(i) = <<"clone", "load", "eval">>
                    /\ trace[j].file # None
                    /\ trace[j + 1].file = trace[j].file
                    /\ trace[i].file = trace[j].file
                    /\ trace[i].S.bn = trace[j].file
                 \/ /\ StepsUpTo(i) = <<"clone", "forward", "save", "eval">>
                    /\ trace[j].file = None
                    /\ trace[j + 1].file = None
                    /\ trace[j + 2].file = trace[j + 1].S.bn
                    /\ trace[j + 2].file # None
                    /\ trace[i].file = trace[j + 2].file
                    /\ trace[i].S.bn = trace[i].file
    /\ \A i, j \in DOMAIN trace :
          (/\ i < j
           /\ trace[i].step = "eval"
           /\ trace[j].step = "clone"
           /\ trace[j].cfg = trace[i].cfg)
          => /\ trace[j].file = trace[i].file
             /\ (j + 1) \in DOMAIN trace => trace[j + 1].step = "load"

\* C14 witness: one config was evaluated twice, the first time after
\* calibrating and saving, the second time after loading what was saved.
C14_Witness ==
    \E i, k \in DOMAIN trace :
        /\ i < k
        /\ trace[i].step = "eval"
        /\ trace[k].step = "eval"
        /\ trace[i].cfg = trace[k].cfg
        /\ trace[i - 1].step = "save"
        /\ trace[k - 1].step = "load"
        /\ trace[k].S.bn = trace[i].S.bn

\* C15: whatever p_target the caller passes, the minDCF that comes back is
\* the detection cost for that p_target, in the EfficientTDNN.ipynb helper
\* (tRes) and in the SubnetEvaluation.ipynb helper (tResSub) alike.
C15_PriorForwarded ==
    tRes # None =>
        /\ tRes[2] = calculate_mindcf(tLabs, tScores, tP, FromInt(1), FromInt(1))[1]
        /\ tResSub[2] = calculate_mindcf(tLabs, tScores, tP, FromInt(1), FromInt(1))[1]

\* The subnet a config, a backup and a statistics file determine.
SubnetFor(c, bak, file) == [arch |-> c, from |-> bak.arch, bn |-> file]

\* C16: no step of the loop changes model_bak, and every subnet that was
\* evaluated is the one its config, the backup and the config's statistics
\* file determine, whatever was cloned, loaded, calibrated or evaluated in
\* the iterations before it.
C16_BackupUntouched ==
    [][/\ model_bak' = model_bak
       /\ \A i \in DOMAIN trace' :
             trace'[i].step = "eval" =>
                trace'[i].S = SubnetFor(trace'[i].cfg, model_bak', trace'[i].file)]_vars

\* C16 witness: a config was evaluated after a different config had been
\* calibrated and evaluated in the iteration before, with other statistics.
C16_Witness ==
    \E i, k \in DOMAIN trace :
        /\ i < k
        /\ trace[i].step = "eval"
        /\ trace[k].step = "eval"
        /\ trace[i].cfg # trace[k].cfg
        /\ trace[i - 1].step = "save"
        /\ trace[i].S.bn # trace[k].S.bn
        /\ model_bak = Supernet

=============================================================================
